---- MODULE Spec2Model ----
(***************************************************************************)
(* Model of the DataCollectorUI React component                            *)
(* (src/custom_data_collector_ui_react.jsx).                               *)
(*                                                                         *)
(* The component state is the eight useState cells.  A view-mode run       *)
(* suspends twice (await fetch, await res.json()); every request that has  *)
(* been issued and whose continuation has not finished is an entry of      *)
(* `pending`.  `lastEvent` records which handler ran last and what it did  *)
(* to the outside world (POST issued, URL opened, response consumed).      *)
(* `resetSinceRun` records that Reset was clicked and that handleRun has   *)
(* not been invoked since.                                                 *)
(*                                                                         *)
(* JavaScript strings that the code inspects character by character        *)
(* (filter text, cell values, URL parts) are sequences of one-character    *)
(* strings; strings that are only stored and compared are TLA+ strings.    *)
(***************************************************************************)
EXTENDS Integers, Sequences, FiniteSets, TLC

VARIABLES category, source, mode, format, loading, error, rows, filter,
          pending, lastEvent, resetSinceRun

vars == <<category, source, mode, format, loading, error, rows, filter,
          pending, lastEvent, resetSinceRun>>

state == <<category, source, mode, format, loading, error, rows, filter>>

----------------------------------------------------------------------------
(* Bounds of the model *)

\* largest number of requests whose continuation may be outstanding at once
MaxPending == 2

\* longest filter text enumerated for the filter specification
MaxFilterLen == 2

\* longest row sequence enumerated for the filter specification
MaxRows == 2

----------------------------------------------------------------------------
(* Characters and JavaScript string functions *)

Upper == <<"A","B","C","D","E","F","G","H","I","J","K","L","M",
           "N","O","P","Q","R","S","T","U","V","W","X","Y","Z">>

Lower == <<"a","b","c","d","e","f","g","h","i","j","k","l","m",
           "n","o","p","q","r","s","t","u","v","w","x","y","z">>

Digits == <<"0","1","2","3","4","5","6","7","8","9">>

\* String.prototype.toLowerCase on one character
LowerChar(c) ==
  IF \E i \in 1..26 : Upper[i] = c
    THEN Lower[CHOOSE i \in 1..26 : Upper[i] = c]
    ELSE c

\* String.prototype.toLowerCase
toLowerCase(s) == [i \in 1..Len(s) |-> LowerChar(s[i])]

\* String.prototype.includes
includes(s, q) ==
  \E i \in 1..(Len(s) + 1) :
    /\ i + Len(q) - 1 <= Len(s)
    /\ SubSeq(s, i, i + Len(q) - 1) = q

IsSpace(c) == c = " "

\* String.prototype.trim
RECURSIVE trimStart(_)
trimStart(s) ==
  IF s # <<>> /\ IsSpace(Head(s)) THEN trimStart(Tail(s)) ELSE s

RECURSIVE trimEnd(_)
trimEnd(s) ==
  IF s # <<>> /\ IsSpace(s[Len(s)]) THEN trimEnd(SubSeq(s, 1, Len(s) - 1)) ELSE s

trim(s) == trimEnd(trimStart(s))

\* Number.prototype.toString for a natural number
RECURSIVE NumberToString(_)
NumberToString(n) ==
  IF n < 10 THEN <<Digits[n + 1]>>
  ELSE NumberToString(n \div 10) \o <<Digits[(n % 10) + 1]>>

IsUnreserved(c) ==
  \/ \E i \in 1..26 : Upper[i] = c \/ Lower[i] = c
  \/ \E i \in 1..10 : Digits[i] = c
  \/ c \in {"-", "_", ".", "!", "~", "*", "'", "(", ")"}

\* encodeURIComponent on one (ASCII) character
EncodeChar(c) ==
  IF IsUnreserved(c) THEN <<c>>
  ELSE IF c = " " THEN <<"%", "2", "0">>
  ELSE IF c = "/" THEN <<"%", "2", "F">>
  ELSE IF c = ":" THEN <<"%", "3", "A">>
  ELSE <<"%", "3", "F">>

\* encodeURIComponent
RECURSIVE encodeURIComponent(_)
encodeURIComponent(s) ==
  IF s = <<>> THEN <<>>
  ELSE EncodeChar(Head(s)) \o encodeURIComponent(Tail(s))

----------------------------------------------------------------------------
(* Static data *)

\* const BASE_URL, as characters
BASE_URL == <<"h","t","t","p",":","/","/","l","o","c","a","l","h","o","s","t",":","8","0","0","0">>

\* const CATEGORY_SOURCES: category name -> ordered list of source names
CATEGORY_SOURCES ==
     ("Education" :> <<"Udemy", "Coursera", "Skillshare">>)
  @@ ("Real Estate" :> <<"99Acres", "MagicBricks", "Housing">>)
  @@ ("Events" :> <<"BookMyShow", "Eventbrite">>)
  @@ ("Jobs" :> <<"LinkedIn", "Naukri", "Indeed">>)
  @@ ("News" :> <<"InShorts", "NewsAPI">>)

\* the characters of every string literal that reaches toLowerCase /
\* encodeURIComponent (category names, source names, format values)
Chars ==
     ("Education" :> <<"E","d","u","c","a","t","i","o","n">>)
  @@ ("Real Estate" :> <<"R","e","a","l"," ","E","s","t","a","t","e">>)
  @@ ("Events" :> <<"E","v","e","n","t","s">>)
  @@ ("Jobs" :> <<"J","o","b","s">>)
  @@ ("News" :> <<"N","e","w","s">>)
  @@ ("Udemy" :> <<"U","d","e","m","y">>)
  @@ ("Coursera" :> <<"C","o","u","r","s","e","r","a">>)
  @@ ("Skillshare" :> <<"S","k","i","l","l","s","h","a","r","e">>)
  @@ ("99Acres" :> <<"9","9","A","c","r","e","s">>)
  @@ ("MagicBricks" :> <<"M","a","g","i","c","B","r","i","c","k","s">>)
  @@ ("Housing" :> <<"H","o","u","s","i","n","g">>)
  @@ ("BookMyShow" :> <<"B","o","o","k","M","y","S","h","o","w">>)
  @@ ("Eventbrite" :> <<"E","v","e","n","t","b","r","i","t","e">>)
  @@ ("LinkedIn" :> <<"L","i","n","k","e","d","I","n">>)
  @@ ("Naukri" :> <<"N","a","u","k","r","i">>)
  @@ ("Indeed" :> <<"I","n","d","e","e","d">>)
  @@ ("InShorts" :> <<"I","n","S","h","o","r","t","s">>)
  @@ ("NewsAPI" :> <<"N","e","w","s","A","P","I">>)
  @@ ("pdf" :> <<"p","d","f">>)
  @@ ("excel" :> <<"e","x","c","e","l">>)

Range(s) == {s[i] : i \in DOMAIN s}

----------------------------------------------------------------------------
(* JavaScript values held in rows, and JSON response bodies *)

\* a scalar cell value: string (s), number (n), boolean (n = 1 or 0) or null
Str(chars) == [t |-> "string", s |-> chars, n |-> 0]
Num(k) == [t |-> "number", s |-> <<>>, n |-> k]
Bool(b) == [t |-> "boolean", s |-> <<>>, n |-> IF b THEN 1 ELSE 0]
Null == [t |-> "null", s |-> <<>>, n |-> 0]

\* a row: a JSON object given by its cells in key order, or a null element
Row(cells) == [isNull |-> FALSE, cells |-> cells]
NullRow == [isNull |-> TRUE, cells |-> <<>>]
Cell(k, v) == [k |-> k, v |-> v]

\* String(v ?? "")
String(v) ==
  CASE v.t = "null" -> <<>>
    [] v.t = "string" -> v.s
    [] v.t = "number" -> NumberToString(v.n)
    [] v.t = "boolean" -> IF v.n = 1 THEN <<"t","r","u","e">>
                                     ELSE <<"f","a","l","s","e">>

\* Object.values(r ?? {})
ObjectValues(r) ==
  IF r.isNull THEN <<>> ELSE [i \in 1..Len(r.cells) |-> r.cells[i].v]

\* Object.keys(r ?? {})
ObjectKeys(r) ==
  IF r.isNull THEN <<>> ELSE [i \in 1..Len(r.cells) |-> r.cells[i].k]

\* a parsed JSON body: t is its type; items are the elements when it is an
\* array; dt / ditems are the type and elements of its `data` property when
\* it is an object ("undefined" when the property is absent)
Json(t, items, dt, ditems) ==
  [t |-> t, items |-> items, dt |-> dt, ditems |-> ditems]

NoJson == Json("none", <<>>, "undefined", <<>>)

JsonArray(items) == Json("array", items, "undefined", <<>>)
JsonWrapped(items) == Json("object", <<>>, "array", items)
JsonScalar(t) == Json(t, <<>>, "undefined", <<>>)
JsonObject(dt) == Json("object", <<>>, dt, <<>>)

\* json.data (property lookup on a primitive yields undefined)
PropData(json) ==
  IF json.t = "object" THEN [t |-> json.dt, items |-> json.ditems]
  ELSE [t |-> "undefined", items |-> <<>>]

\* variant of DataOfJson that reads json.data without testing for a bare array
DataOfJson_dataOnly(json) ==
  IF PropData(json).t \in {"undefined", "null"}
    THEN [t |-> "array", items |-> <<>>]
    ELSE PropData(json)

\* line 69: const data = Array.isArray(json) ? json : (json.data ?? [])
DataOfJson(json) ==
  IF json.t = "array" THEN [t |-> "array", items |-> json.items]
  ELSE IF PropData(json).t \in {"undefined", "null"}
    THEN [t |-> "array", items |-> <<>>]
    ELSE PropData(json)

\* line 70: Array.isArray(data) ? data : []
RowsOfJson(json) ==
  IF DataOfJson(json).t = "array" THEN DataOfJson(json).items ELSE <<>>

\* line 69 reads json.data, which throws a TypeError when json is null
ThrowsOnData(json) == json.t = "null"

----------------------------------------------------------------------------
(* Results viewer: filteredRows (lines 37-43) *)

\* lines 40-41: the predicate handed to rows.filter
RowMatches(r, q) ==
  \E i \in 1..Len(ObjectValues(r)) :
    includes(toLowerCase(String(ObjectValues(r)[i])), q)

\* Array.prototype.filter with RowMatches
RECURSIVE FilterMatching(_, _)
FilterMatching(rs, q) ==
  IF rs = <<>> THEN <<>>
  ELSE IF RowMatches(Head(rs), q)
    THEN <<Head(rs)>> \o FilterMatching(Tail(rs), q)
    ELSE FilterMatching(Tail(rs), q)

\* variant of FilteredRowsOf that does not lowercase the filter text
FilteredRowsOf_caseSensitive(rs, f) ==
  IF trim(f) = <<>> THEN rs
  ELSE FilterMatching(rs, f)

\* lines 37-43
FilteredRowsOf(rs, f) ==
  IF trim(f) = <<>> THEN rs
  ELSE FilterMatching(rs, toLowerCase(f))

filteredRows == FilteredRowsOf(rows, filter)

----------------------------------------------------------------------------
(* Results table (lines 204-246) *)

\* lines 204 and 222: the table replaces the "No data yet" text in view mode
\* when at least one row is visible
TableShown == mode = "view" /\ filteredRows # <<>>

\* variant of TableHeadersOf that reads the first fetched row
TableHeadersOf_firstFetched(frs) == ObjectKeys(rows[1])

\* line 227: Object.keys(filteredRows[0] ?? {})
TableHeadersOf(frs) == ObjectKeys(frs[1])

TableHeaders == TableHeadersOf(filteredRows)

\* row[col]; a missing key yields undefined, which ?? treats like null
RowProp(r, col) ==
  IF \E i \in 1..Len(r.cells) : r.cells[i].k = col
    THEN r.cells[CHOOSE i \in 1..Len(r.cells) : r.cells[i].k = col].v
    ELSE Null

\* line 237: String(row[col] ?? "")
CellText(r, col) == String(RowProp(r, col))

\* lines 233-241: one <tr> per visible row, one <td> per header column
TableBody ==
  [i \in 1..Len(filteredRows) |->
     [j \in 1..Len(TableHeaders) |-> CellText(filteredRows[i], TableHeaders[j])]]

\* line 235 calls Object.keys(filteredRows[0]) without the ?? {} guard and
\* line 237 reads row[col]: both throw a TypeError on a null row
RenderThrows ==
  /\ TableShown
  /\ \/ filteredRows[1].isNull
     \/ /\ TableHeaders # <<>>
        /\ \E i \in 1..Len(filteredRows) : filteredRows[i].isNull

TableRendered == TableShown /\ ~RenderThrows

----------------------------------------------------------------------------
(* Inputs enumerated by the model *)

RowAB == Row(<<Cell("a", Num(1)), Cell("b", Num(2))>>)
RowUdemy == Row(<<Cell("name", Str(<<"U","d","e","m","y"," ","C","o","u","r","s","e">>))>>)
RowCoursera == Row(<<Cell("name", Str(<<"C","o","u","r","s","e","r","a"," ","C","l","a","s","s">>))>>)

\* arrays of rows a backend response may carry
ResponseArrays == { <<>>, <<RowAB>>, <<RowUdemy, RowCoursera>> }

\* parsed bodies of a 2xx response
JsonBodies ==
  {JsonArray(a) : a \in ResponseArrays}
    \cup {JsonWrapped(a) : a \in ResponseArrays}
    \cup {JsonScalar(t) : t \in {"null", "number", "string", "boolean"}}
    \cup {JsonObject(dt) : dt \in {"undefined", "null", "number", "string", "object"}}

\* HTTP statuses of a resolved fetch
Statuses == {200, 404, 500}

\* e.message of a rejected fetch (transport failure)
TransportMessages == {"Failed to fetch", ""}

\* e.message of a rejected res.json() (body is not JSON)
ParseMessages == {"Unexpected token < in JSON at position 0"}

\* e.message of the TypeError raised by reading null.data
NullDataMessage == "Cannot read properties of null (reading 'data')"

\* texts typed into the filter box
FilterTexts == { <<>>, <<" ">>, <<"c","o","u","r">>, <<"Z">> }

Modes == {"view", "download"}
Formats == {"excel", "pdf"}

----------------------------------------------------------------------------
(* Derived state (recomputed on every render) *)

\* variant of sources that is not recomputed when the category changes
sources_staleCategory ==
  IF category # "" THEN CATEGORY_SOURCES["Education"] ELSE <<>>

\* line 33
sources ==
  IF category # ""
    THEN IF category \in DOMAIN CATEGORY_SOURCES
           THEN CATEGORY_SOURCES[category] ELSE <<>>
    ELSE <<>>

\* variant of canRun without the busy flag
canRun_ignoresLoading == category # "" /\ source # ""

\* line 35
canRun == category # "" /\ source # "" /\ ~loading

\* res.ok
ResponseOk(status) == status >= 200 /\ status <= 299

\* variant of DownloadUrl that does not lowercase the category and the source
DownloadUrl_noLowerCase(c, s, f) ==
  BASE_URL \o <<"/","s","c","r","a","p","e","/">>
    \o encodeURIComponent(Chars[c]) \o <<"/">>
    \o encodeURIComponent(Chars[s]) \o <<"/">>
    \o encodeURIComponent(Chars[f])

\* line 53
DownloadUrl(c, s, f) ==
  BASE_URL \o <<"/","s","c","r","a","p","e","/">>
    \o encodeURIComponent(toLowerCase(Chars[c])) \o <<"/">>
    \o encodeURIComponent(toLowerCase(Chars[s])) \o <<"/">>
    \o encodeURIComponent(Chars[f])

\* line 72: e.message || "Something went wrong"
CatchMessage(m) == IF m = "" THEN "Something went wrong" ELSE m

----------------------------------------------------------------------------
(* Event log: the handler that ran last and its effect on the outside *)

Event(op, arg, url, body, json) ==
  [op |-> op, arg |-> arg, url |-> url, body |-> body, json |-> json]

UIEvent(op, arg) == Event(op, arg, <<>>, <<>>, NoJson)

RemoveAt(q, i) == SubSeq(q, 1, i - 1) \o SubSeq(q, i + 1, Len(q))

----------------------------------------------------------------------------
(* Initial state: the useState initialisers, lines 24-31 *)

Init ==
  /\ category = ""
  /\ source = ""
  /\ mode = "view"
  /\ format = "excel"
  /\ loading = FALSE
  /\ error = ""
  /\ rows = <<>>
  /\ filter = <<>>
  /\ pending = <<>>
  /\ lastEvent = UIEvent("init", "")
  /\ resetSinceRun = FALSE

----------------------------------------------------------------------------
(* Form controls *)

\* variant of SelectCategory that leaves the selected source in place
SelectCategory_keepsSource(c) ==
  /\ c # category
  /\ category' = c
  /\ lastEvent' = UIEvent("selectCategory", c)
  /\ UNCHANGED <<source, mode, format, loading, error, rows, filter, pending, resetSinceRun>>

\* category <select> onChange, lines 117-120
SelectCategory(c) ==
  /\ c # category
  /\ category' = c
  /\ source' = ""
  /\ lastEvent' = UIEvent("selectCategory", c)
  /\ UNCHANGED <<mode, format, loading, error, rows, filter, pending, resetSinceRun>>

\* source <select> onChange, lines 133-143 (disabled without a category;
\* its options are "" and the entries of sources)
SelectSource(s) ==
  /\ category # ""
  /\ s \in {""} \cup Range(sources)
  /\ s # source
  /\ source' = s
  /\ lastEvent' = UIEvent("selectSource", s)
  /\ UNCHANGED <<category, mode, format, loading, error, rows, filter, pending, resetSinceRun>>

\* mode radio buttons, lines 151-166
SetMode(m) ==
  /\ m # mode
  /\ mode' = m
  /\ lastEvent' = UIEvent("setMode", m)
  /\ UNCHANGED <<category, source, format, loading, error, rows, filter, pending, resetSinceRun>>

\* format <select>, lines 176-184 (disabled unless mode is download)
SetFormat(f) ==
  /\ mode = "download"
  /\ f # format
  /\ format' = f
  /\ lastEvent' = UIEvent("setFormat", f)
  /\ UNCHANGED <<category, source, mode, loading, error, rows, filter, pending, resetSinceRun>>

\* filter <input>, lines 209-215 (rendered only in view mode)
SetFilter(q) ==
  /\ mode = "view"
  /\ q # filter
  /\ filter' = q
  /\ lastEvent' = UIEvent("setFilter", "")
  /\ UNCHANGED <<category, source, mode, format, loading, error, rows, pending, resetSinceRun>>

\* variant of clearAll that leaves the filter text in place
clearAll_keepsFilter ==
  /\ category' = ""
  /\ source' = ""
  /\ mode' = "view"
  /\ format' = "excel"
  /\ rows' = <<>>
  /\ error' = ""
  /\ lastEvent' = UIEvent("reset", "")
  /\ resetSinceRun' = TRUE
  /\ UNCHANGED <<filter, loading, pending>>

\* clearAll, lines 78-86
clearAll ==
  /\ category' = ""
  /\ source' = ""
  /\ mode' = "view"
  /\ format' = "excel"
  /\ rows' = <<>>
  /\ filter' = <<>>
  /\ error' = ""
  /\ lastEvent' = UIEvent("reset", "")
  /\ resetSinceRun' = TRUE
  /\ UNCHANGED <<loading, pending>>

----------------------------------------------------------------------------
(* handleRun, lines 45-76 *)

\* variant of handleRun whose validation failure does not stop a view-mode run
handleRun_noReturn ==
  IF (category = "" \/ source = "") /\ mode = "download"
    THEN
      /\ error' = "Please select both category and source."
      /\ lastEvent' = UIEvent("validation", "")
      /\ resetSinceRun' = FALSE
      /\ UNCHANGED <<category, source, mode, format, loading, rows, filter, pending>>
  ELSE IF mode = "download"
    THEN
      /\ error' = ""
      /\ lastEvent' = Event("download", "", DownloadUrl(category, source, format),
                            <<>>, NoJson)
      /\ resetSinceRun' = FALSE
      /\ UNCHANGED <<category, source, mode, format, loading, rows, filter, pending>>
  ELSE
      /\ Len(pending) < MaxPending
      /\ error' = IF category = "" \/ source = ""
                    THEN "Please select both category and source." ELSE ""
      /\ loading' = TRUE
      /\ pending' = Append(pending, [stage |-> "fetch"])
      /\ lastEvent' = Event("post", "", <<>>, <<category, source>>, NoJson)
      /\ resetSinceRun' = FALSE
      /\ UNCHANGED <<category, source, mode, format, rows, filter>>

\* variant of handleRun whose download branch does not return after
\* window.open and runs on into the fetch
handleRun_downloadFallsThrough ==
  IF category = "" \/ source = ""
    THEN
      /\ error' = "Please select both category and source."
      /\ lastEvent' = UIEvent("validation", "")
      /\ resetSinceRun' = FALSE
      /\ UNCHANGED <<category, source, mode, format, loading, rows, filter, pending>>
  ELSE IF mode = "download"
    THEN
      /\ Len(pending) < MaxPending
      /\ error' = ""
      /\ loading' = TRUE
      /\ pending' = Append(pending, [stage |-> "fetch"])
      /\ lastEvent' = Event("download", "", DownloadUrl(category, source, format),
                            <<category, source>>, NoJson)
      /\ resetSinceRun' = FALSE
      /\ UNCHANGED <<category, source, mode, format, rows, filter>>
  ELSE
      /\ Len(pending) < MaxPending
      /\ error' = ""
      /\ loading' = TRUE
      /\ pending' = Append(pending, [stage |-> "fetch"])
      /\ lastEvent' = Event("post", "", <<>>, <<category, source>>, NoJson)
      /\ resetSinceRun' = FALSE
      /\ UNCHANGED <<category, source, mode, format, rows, filter>>

\* variant of handleRun without the setError("") of line 46
handleRun_keepsError ==
  IF category = "" \/ source = ""
    THEN
      /\ error' = "Please select both category and source."
      /\ lastEvent' = UIEvent("validation", "")
      /\ resetSinceRun' = FALSE
      /\ UNCHANGED <<category, source, mode, format, loading, rows, filter, pending>>
  ELSE IF mode = "download"
    THEN
      /\ lastEvent' = Event("download", "", DownloadUrl(category, source, format),
                            <<>>, NoJson)
      /\ resetSinceRun' = FALSE
      /\ UNCHANGED <<category, source, mode, format, loading, error, rows, filter, pending>>
  ELSE
      /\ Len(pending) < MaxPending
      /\ loading' = TRUE
      /\ pending' = Append(pending, [stage |-> "fetch"])
      /\ lastEvent' = Event("post", "", <<>>, <<category, source>>, NoJson)
      /\ resetSinceRun' = FALSE
      /\ UNCHANGED <<category, source, mode, format, error, rows, filter>>

\* lines 46-65: the handler up to its first await
handleRun ==
  IF category = "" \/ source = ""
    THEN \* lines 47-50
      /\ error' = "Please select both category and source."
      /\ lastEvent' = UIEvent("validation", "")
      /\ resetSinceRun' = FALSE
      /\ UNCHANGED <<category, source, mode, format, loading, rows, filter, pending>>
  ELSE IF mode = "download"
    THEN \* lines 52-56
      /\ error' = ""
      /\ lastEvent' = Event("download", "", DownloadUrl(category, source, format),
                            <<>>, NoJson)
      /\ resetSinceRun' = FALSE
      /\ UNCHANGED <<category, source, mode, format, loading, rows, filter, pending>>
  ELSE \* lines 59-65
      /\ Len(pending) < MaxPending
      /\ error' = ""
      /\ loading' = TRUE
      /\ pending' = Append(pending, [stage |-> "fetch"])
      /\ lastEvent' = Event("post", "", <<>>, <<category, source>>, NoJson)
      /\ resetSinceRun' = FALSE
      /\ UNCHANGED <<category, source, mode, format, rows, filter>>

\* variant of Catch that also empties the row set
Catch_clearsRows(i, m, reason, json) ==
  /\ error' = CatchMessage(m)
  /\ rows' = <<>>
  /\ loading' = FALSE
  /\ pending' = RemoveAt(pending, i)
  /\ lastEvent' = Event("failed", reason, <<>>, <<>>, json)
  /\ UNCHANGED <<category, source, mode, format, filter, resetSinceRun>>

\* variant of Catch without the finally block
Catch_keepsLoading(i, m, reason, json) ==
  /\ error' = CatchMessage(m)
  /\ pending' = RemoveAt(pending, i)
  /\ lastEvent' = Event("failed", reason, <<>>, <<>>, json)
  /\ UNCHANGED <<category, source, mode, format, loading, rows, filter, resetSinceRun>>

\* lines 71-75: catch, then finally, for the request at position i
Catch(i, m, reason, json) ==
  /\ error' = CatchMessage(m)
  /\ loading' = FALSE
  /\ pending' = RemoveAt(pending, i)
  /\ lastEvent' = Event("failed", reason, <<>>, <<>>, json)
  /\ UNCHANGED <<category, source, mode, format, rows, filter, resetSinceRun>>

\* lines 61-66: the fetch promise settles
FetchSettle(i) ==
  /\ i \in DOMAIN pending
  /\ pending[i].stage = "fetch"
  /\ \/ \E m \in TransportMessages : Catch(i, m, "transport", NoJson)
     \/ \E st \in Statuses :
          IF ResponseOk(st)
            THEN /\ pending' = [pending EXCEPT ![i].stage = "json"]
                 /\ lastEvent' = UIEvent("response", ToString(st))
                 /\ UNCHANGED <<state, resetSinceRun>>
            ELSE Catch(i, "Server responded " \o ToString(st), "status", NoJson)

\* lines 67-75: the res.json() promise settles
JsonSettle(i) ==
  /\ i \in DOMAIN pending
  /\ pending[i].stage = "json"
  /\ \/ \E m \in ParseMessages : Catch(i, m, "parse", NoJson)
     \/ \E json \in JsonBodies :
          IF ThrowsOnData(json)
            THEN Catch(i, NullDataMessage, "type", json)
            ELSE /\ rows' = RowsOfJson(json)
                 /\ loading' = FALSE
                 /\ pending' = RemoveAt(pending, i)
                 /\ lastEvent' = Event("succeeded", "", <<>>, <<>>, json)
                 /\ UNCHANGED <<category, source, mode, format, error, filter, resetSinceRun>>

Settle == \E i \in 1..MaxPending : FetchSettle(i) \/ JsonSettle(i)

\* Run <button> onClick, lines 190-196 (disabled unless canRun)
ClickRun == canRun /\ handleRun

----------------------------------------------------------------------------
(* Specifications *)

Categories == {""} \cup DOMAIN CATEGORY_SOURCES

AllSources == UNION {Range(CATEGORY_SOURCES[c]) : c \in DOMAIN CATEGORY_SOURCES}

Controls ==
  \/ \E c \in Categories : SelectCategory(c)
  \/ \E s \in {""} \cup AllSources : SelectSource(s)
  \/ \E m \in Modes : SetMode(m)
  \/ \E f \in Formats : SetFormat(f)
  \/ \E q \in FilterTexts : SetFilter(q)
  \/ clearAll

\* the component as the browser drives it
Next ==
  \/ Controls
  \/ ClickRun
  \/ Settle

Spec == Init /\ [][Next]_vars

\* every issued request eventually resolves or rejects
SpecLive == Spec /\ WF_vars(Settle)

\* the handler invoked directly, whatever the state of the Run button
NextHandler ==
  \/ Next
  \/ handleRun

SpecHandler == Init /\ [][NextHandler]_vars

BoundedSeq(S, n) == UNION {[1..k -> S] : k \in 0..n}

\* rows and filter characters enumerated for the results viewer; they mix
\* upper and lower case, blanks, numbers, nulls, an empty object and a null row
FilterRowPool ==
  { Row(<<Cell("name", Str(<<"A","b">>))>>),
    Row(<<Cell("x", Str(<<"b"," ","a">>)), Cell("n", Num(1))>>),
    Row(<<Cell("v", Null), Cell("f", Str(<<"B","B">>))>>),
    Row(<<>>),
    NullRow }

FilterAlphabet == {"a", "B", " "}

\* the viewer holding any fetched row set, the user typing any filter text
InitFilter ==
  /\ category = ""
  /\ source = ""
  /\ mode = "view"
  /\ format = "excel"
  /\ loading = FALSE
  /\ error = ""
  /\ rows \in BoundedSeq(FilterRowPool, MaxRows)
  /\ filter = <<>>
  /\ pending = <<>>
  /\ lastEvent = UIEvent("init", "")
  /\ resetSinceRun = FALSE

NextFilter == \E q \in BoundedSeq(FilterAlphabet, MaxFilterLen) : SetFilter(q)

SpecFilter == InitFilter /\ [][NextFilter]_vars

----------------------------------------------------------------------------
(* Properties *)

FetchFailureReasons == {"status", "transport", "parse"}

C2_SingleFlight ==
  /\ [](Len(pending) <= 1)
  /\ [][pending # <<>> => lastEvent'.op \notin {"post", "download"}]_vars

C2_Witness ==
  /\ Len(pending) = 1
  /\ category # ""
  /\ source # ""
  /\ lastEvent.op = "selectSource"

\* the rows a successful response carries: a bare array, or the array under
\* the data key; nothing otherwise
ResponseRows(json) ==
  IF json.t = "array" THEN json.items
  ELSE IF json.t = "object" /\ json.dt = "array" THEN json.ditems
  ELSE <<>>

\* C3: run is idle -> loading -> {success, error} -> idle: loading is true
\* only while a request is pending; the step that sets loading back to false
\* either replaced the rows by the response rows or left an error message;
\* and, the call resolving or rejecting, loading always returns to false.
C3_RunStateMachine ==
  /\ [](loading => pending # <<>>)
  /\ [][(loading /\ ~loading')
          => \/ lastEvent'.op = "succeeded" /\ rows' = ResponseRows(lastEvent'.json)
             \/ lastEvent'.op = "failed" /\ error' # ""]_vars
  /\ (loading ~> ~loading)

C3_Witness ==
  /\ lastEvent.op = "succeeded"
  /\ ~loading
  /\ pending = <<>>
  /\ rows = <<RowAB>>

\* C4: the selected source is empty or one of the sources of the selected
\* category.
C4_SourceBelongsToCategory ==
  \/ source = ""
  \/ /\ category \in DOMAIN CATEGORY_SOURCES
     /\ \E i \in DOMAIN CATEGORY_SOURCES[category] :
          CATEGORY_SOURCES[category][i] = source

C4_Witness ==
  /\ source # ""
  /\ lastEvent.op = "succeeded"
  /\ rows # <<>>

\* C5: right after category C is selected the available sources are exactly
\* CATEGORY_SOURCES[C], in order, and the selected source is empty; with no
\* category selected there are no available sources.
C5_SelectCategoryYieldsSources ==
  /\ (lastEvent.op = "selectCategory" /\ lastEvent.arg # "")
       => (sources = CATEGORY_SOURCES[lastEvent.arg] /\ source = "")
  /\ category = "" => sources = <<>>

C5_Witness ==
  /\ lastEvent.op = "selectCategory"
  /\ lastEvent.arg = "Real Estate"
  /\ sources = <<"99Acres", "MagicBricks", "Housing">>
  /\ rows # <<>>

RunEvents == {"validation", "download", "post"}

\* C6: a run invoked with an empty category or an empty source, in either
\* mode, ends in the validation error: the error is non-empty, no POST is
\* issued, no URL is opened, loading and the row set are left unchanged.
C6_ValidationTouchesNoNetwork ==
  [][(lastEvent'.op \in RunEvents /\ (category = "" \/ source = ""))
       => /\ lastEvent'.op = "validation"
          /\ error' # ""
          /\ pending' = pending
          /\ loading' = loading
          /\ rows' = rows]_vars

C6_Witness ==
  /\ lastEvent.op = "validation"
  /\ error # ""
  /\ mode = "download"
  /\ category # ""
  /\ source = ""

IsMalformed(json) ==
  \/ json.t \in {"null", "number", "string", "boolean"}
  \/ json.t = "object" /\ json.dt # "array"

\* C7: a 2xx response whose body is neither an array nor an object, or an
\* object whose data is absent or not an array, ends the run with an empty
\* row set and no error message.
C7_MalformedBodyIsEmptyResult ==
  (lastEvent.op \in {"succeeded", "failed"} /\ IsMalformed(lastEvent.json))
    => (rows = <<>> /\ error = "")

\* C8: a successful fetch of the bare array A and a successful fetch of
\* {data: A} leave the same row set, A itself.
C8_BareArrayEqualsWrapped ==
  \A A \in ResponseArrays :
    (lastEvent.op = "succeeded" /\ lastEvent.json \in {JsonArray(A), JsonWrapped(A)})
      => rows = A

C8_Witness ==
  /\ lastEvent.op = "succeeded"
  /\ lastEvent.json = JsonArray(<<RowUdemy, RowCoursera>>)
  /\ rows = <<RowUdemy, RowCoursera>>

\* some value of the row, stringified and lowercased, contains the lowercased
\* filter text
SomeValueContainsFilter(r) ==
  \E i \in 1..Len(r.cells) :
    LET text == toLowerCase(String(r.cells[i].v))
        q == toLowerCase(filter)
    IN \E pre, post \in 0..Len(text) :
         /\ pre + Len(q) + post = Len(text)
         /\ \A j \in 1..Len(q) : text[pre + j] = q[j]

\* C9 (as stated): for every filter text the filtered rows are, in order,
\* exactly the rows having a value that contains the filter text, case
\* ignored.
C9_FilterIsMatchingSubsequence ==
  filteredRows = SelectSeq(rows, SomeValueContainsFilter)

\* C9 (amended): that holds for every filter text that is not blank; a filter
\* text that is empty or only whitespace leaves all rows.
C9_NonBlankFilterIsMatchingSubsequence ==
  IF \A i \in 1..Len(filter) : filter[i] = " "
    THEN filteredRows = rows
    ELSE filteredRows = SelectSeq(rows, SomeValueContainsFilter)

C9_Witness ==
  /\ filter = <<"B">>
  /\ Len(rows) = 2
  /\ Len(filteredRows) = 1
  /\ filteredRows[1] = rows[2]

\* C10 (as stated): Reset, in any state, restores loading, error and filter
\* text to their initial values along with category, source, mode, format
\* and the row set.
C10_ResetRestoresInitialState ==
  lastEvent.op = "reset"
    => /\ loading = FALSE
       /\ error = ""
       /\ filter = <<>>
       /\ category = ""
       /\ source = ""
       /\ mode = "view"
       /\ format = "excel"
       /\ rows = <<>>

\* C10 (amended): Reset restores error, filter text, category, source, mode,
\* format and the row set to their initial values and leaves loading as it
\* was, so loading stays true while a fetch is in flight.
C10_ResetKeepsLoading ==
  [][lastEvent'.op = "reset"
       => /\ loading' = loading
          /\ error' = ""
          /\ filter' = <<>>
          /\ category' = ""
          /\ source' = ""
          /\ mode' = "view"
          /\ format' = "excel"
          /\ rows' = <<>>]_vars

C10_Witness ==
  /\ lastEvent.op = "reset"
  /\ loading
  /\ pending # <<>>

\* the path component expected for each category and source name: the name
\* in lower case, a blank written %20
ExpectedComponent ==
     ("Education" :> <<"e","d","u","c","a","t","i","o","n">>)
  @@ ("Real Estate" :> <<"r","e","a","l","%","2","0","e","s","t","a","t","e">>)
  @@ ("Events" :> <<"e","v","e","n","t","s">>)
  @@ ("Jobs" :> <<"j","o","b","s">>)
  @@ ("News" :> <<"n","e","w","s">>)
  @@ ("Udemy" :> <<"u","d","e","m","y">>)
  @@ ("Coursera" :> <<"c","o","u","r","s","e","r","a">>)
  @@ ("Skillshare" :> <<"s","k","i","l","l","s","h","a","r","e">>)
  @@ ("99Acres" :> <<"9","9","a","c","r","e","s">>)
  @@ ("MagicBricks" :> <<"m","a","g","i","c","b","r","i","c","k","s">>)
  @@ ("Housing" :> <<"h","o","u","s","i","n","g">>)
  @@ ("BookMyShow" :> <<"b","o","o","k","m","y","s","h","o","w">>)
  @@ ("Eventbrite" :> <<"e","v","e","n","t","b","r","i","t","e">>)
  @@ ("LinkedIn" :> <<"l","i","n","k","e","d","i","n">>)
  @@ ("Naukri" :> <<"n","a","u","k","r","i">>)
  @@ ("Indeed" :> <<"i","n","d","e","e","d">>)
  @@ ("InShorts" :> <<"i","n","s","h","o","r","t","s">>)
  @@ ("NewsAPI" :> <<"n","e","w","s","a","p","i">>)

ExpectedFormat == ("pdf" :> <<"p","d","f">>) @@ ("excel" :> <<"e","x","c","e","l">>)

\* C11: a download-mode run with non-empty category and source opens the URL
\* {base}/scrape/{c}/{s}/{format}, c and s being the category and the source
\* lowercased and percent-encoded, format being pdf or excel.
C11_DownloadUrlPath ==
  [][(lastEvent'.op \in RunEvents /\ mode = "download" /\ category # "" /\ source # "")
       => /\ lastEvent'.op = "download"
          /\ lastEvent'.url =
               <<"h","t","t","p",":","/","/","l","o","c","a","l","h","o","s","t",
                 ":","8","0","0","0","/","s","c","r","a","p","e","/">>
               \o ExpectedComponent[category] \o <<"/">>
               \o ExpectedComponent[source] \o <<"/">>
               \o ExpectedFormat[format]]_vars

C11_Witness ==
  /\ lastEvent.op = "download"
  /\ category = "Real Estate"
  /\ source = "99Acres"
  /\ format = "pdf"
  /\ lastEvent.url =
       <<"h","t","t","p",":","/","/","l","o","c","a","l","h","o","s","t",
         ":","8","0","0","0","/","s","c","r","a","p","e","/",
         "r","e","a","l","%","2","0","e","s","t","a","t","e","/",
         "9","9","a","c","r","e","s","/","p","d","f">>

\* the keys of a row object, in order
KeysOfRow(r) == [i \in 1..Len(r.cells) |-> r.cells[i].k]

\* every table line has one cell per header; a cell shows the row's value
\* under that header, blank when the row lacks the key
BodyFollowsHeaders ==
  /\ Len(TableBody) = Len(filteredRows)
  /\ \A i \in 1..Len(filteredRows) :
       /\ Len(TableBody[i]) = Len(TableHeaders)
       /\ \A j \in 1..Len(TableHeaders) :
            LET r == filteredRows[i]
                hits == {c \in 1..Len(r.cells) : r.cells[c].k = TableHeaders[j]}
            IN IF hits = {} THEN TableBody[i][j] = <<>>
               ELSE \E c \in hits : TableBody[i][j] = String(r.cells[c].v)

\* C12 (as stated): whenever the table is rendered its headers are the keys
\* of the first row of the fetched row set, whatever filter text leaves a row
\* visible; rows lacking a column show it blank and no other key is shown.
C12_HeadersFromFirstFetchedRow ==
  TableRendered => (TableHeaders = KeysOfRow(rows[1]) /\ BodyFollowsHeaders)

\* C12 (amended): whenever the table is rendered its headers are the keys of
\* the first visible row, that is the first row the filter keeps; rows lacking
\* a column show it blank and no other key is shown.
C12_HeadersFromFirstVisibleRow ==
  TableRendered => (TableHeaders = KeysOfRow(filteredRows[1]) /\ BodyFollowsHeaders)

C12_Witness ==
  /\ TableRendered
  /\ Len(rows) = 2
  /\ filteredRows = <<rows[2]>>
  /\ TableHeaders = <<"name">>
  /\ KeysOfRow(rows[1]) = <<"x", "n">>
  /\ TableBody = << << <<"A", "b">> >> >>

\* C13: a download-mode run with non-empty category and source opens exactly
\* one URL, issues no POST, clears the error and changes nothing else:
\* loading, the row set, the filter text, category, source, mode and format
\* stay as they were.
C13_DownloadChangesOnlyError ==
  [][(lastEvent'.op \in RunEvents /\ mode = "download" /\ category # "" /\ source # "")
       => /\ lastEvent'.op = "download"
          /\ lastEvent'.url # <<>>
          /\ lastEvent'.body = <<>>
          /\ pending' = pending
          /\ error' = ""
          /\ loading' = loading
          /\ ~loading'
          /\ rows' = rows
          /\ filter' = filter
          /\ category' = category
          /\ source' = source
          /\ mode' = mode
          /\ format' = format]_vars

C13_Witness ==
  /\ lastEvent.op = "download"
  /\ lastEvent.url # <<>>
  /\ error = ""
  /\ rows = <<RowUdemy, RowCoursera>>
  /\ filter = <<"c","o","u","r">>
  /\ ~loading
  /\ pending = <<>>

\* C14: once Reset has been performed and until a run is triggered again,
\* the row set stays empty and no error is shown, also when a fetch that was
\* in flight at the time of the Reset completes.
C14_ResetStaysCleared ==
  resetSinceRun => (rows = <<>> /\ error = "")

====
